---- MODULE Spec2Model ----
(***************************************************************************)
(* A model of src/src/lib.rs: Matrix<T>, a dense row-major matrix with     *)
(* element/row/column access and mutation, row/column exchange, the Add,   *)
(* Sub and Mul operators and get_determinant (Gaussian elimination with    *)
(* row and column pivoting).                                               *)
(*                                                                         *)
(* The element type T is modelled as exact rational arithmetic: a scalar   *)
(* is a pair <<n, d>> in lowest terms with d > 0.  Indices are 0-based as  *)
(* in the source; the backing Vec<T> is a sequence, so the element at      *)
(* linear index k is data[k + 1].  A call that panics is modelled by a     *)
(* result record whose ok field is FALSE and whose val field carries the   *)
(* receiver as the panic left it.                                          *)
(***************************************************************************)
EXTENDS Integers, Sequences, FiniteSets, TLC

VARIABLES A, last, pc, trig_matrix, sign, i, pivot, determinant, hist, sign0

vars == <<A, last, pc, trig_matrix, sign, i, pivot, determinant, hist, sign0>>

opVars == <<A, last>>

detVars == <<pc, trig_matrix, sign, i, pivot, determinant, hist, sign0>>

----------------------------------------------------------------------------
(* Bounds of the model. *)

\* largest number of rows or columns of a matrix of the operation model
MaxDim == 3

\* largest number of cells of a matrix of the operation model
MaxCells == 6

\* largest order n of an n x n input of get_determinant
MaxN == 3

----------------------------------------------------------------------------
(* Scalars: exact rationals <<n, d>>, d > 0, gcd(|n|, d) = 1. *)

Abs(x) == IF x < 0 THEN -x ELSE x

RECURSIVE Gcd(_, _)
Gcd(a, b) == IF b = 0 THEN a ELSE Gcd(b, a % b)

Norm(n, d) ==
    LET s == IF d < 0 THEN -1 ELSE 1
        g == Gcd(Abs(n), Abs(d))
    IN  <<(s * n) \div g, (s * d) \div g>>

Rat(n) == <<n, 1>>

Zero == Rat(0)

One == Rat(1)

RAdd(a, b) == Norm(a[1] * b[2] + b[1] * a[2], a[2] * b[2])

RSub(a, b) == Norm(a[1] * b[2] - b[1] * a[2], a[2] * b[2])

RMul(a, b) == Norm(a[1] * b[1], a[2] * b[2])

\* only ever applied with a nonzero divisor (the pivot)
RDiv(a, b) == Norm(a[1] * b[2], a[2] * b[1])

RNeg(a) == <<-a[1], a[2]>>

is_zero(a) == a[1] = 0

----------------------------------------------------------------------------
(* Matrix: the struct and its constructor and accessors. *)

Matrix(r, c, d) == [rows |-> r, columns |-> c, data |-> d]

Ok(v) == [ok |-> TRUE, val |-> v]

Panic(v) == [ok |-> FALSE, val |-> v]

\* self.data[index]
At(m, index) == m.data[index + 1]

\* indexing a Vec out of its range panics
InRange(m, index) == index < Len(m.data)

new(rows, columns, default) ==
    Matrix(rows, columns, [k \in 1..(rows * columns) |-> default])

get(m, row, column) ==
    IF row >= m.rows \/ column >= m.columns
    THEN Panic(Zero)
    ELSE LET index == row * m.columns + column
         IN  IF InRange(m, index) THEN Ok(At(m, index)) ELSE Panic(Zero)

get_row(m, row) ==
    IF row >= m.rows
    THEN Panic(<<>>)
    ELSE LET index == m.columns * row
         IN  IF \A k \in 1..m.columns : InRange(m, index + (k - 1))
             THEN Ok([k \in 1..m.columns |-> At(m, index + (k - 1))])
             ELSE Panic(<<>>)

\* get_column stepping by rows instead of columns
get_column_row_stride(m, column) ==
    IF column >= m.columns
    THEN Panic(<<>>)
    ELSE LET index == column
         IN  IF \A k \in 1..m.rows : InRange(m, ((k - 1) * m.rows) + index)
             THEN Ok([k \in 1..m.rows |-> At(m, ((k - 1) * m.rows) + index)])
             ELSE Panic(<<>>)

get_column(m, column) ==
    IF column >= m.columns
    THEN Panic(<<>>)
    ELSE LET index == column
         IN  IF \A k \in 1..m.rows : InRange(m, ((k - 1) * m.columns) + index)
             THEN Ok([k \in 1..m.rows |-> At(m, ((k - 1) * m.columns) + index)])
             ELSE Panic(<<>>)

get_diagonal(m) ==
    IF m.columns # m.rows
    THEN Panic(<<>>)
    ELSE IF \A k \in 1..m.columns : InRange(m, (k - 1) + ((k - 1) * m.columns))
         THEN Ok([k \in 1..m.columns |-> At(m, (k - 1) + ((k - 1) * m.columns))])
         ELSE Panic(<<>>)

----------------------------------------------------------------------------
(* Mutators.  Each validates, then writes cell by cell as the source's     *)
(* loops do; the val of a Panic is the receiver at the moment of the panic.*)
(* The exchange loops index data directly; their indices lie in the rows   *)
(* or columns the preceding get_row or get_column has read.                *)

\* set with the row stride taken from rows instead of columns
set_row_stride(m, row, column, data) ==
    IF row >= m.rows \/ column >= m.columns
    THEN Panic(m)
    ELSE LET index == row * m.rows + column
         IN  IF InRange(m, index)
             THEN Ok([m EXCEPT !.data[index + 1] = data])
             ELSE Panic(m)

set(m, row, column, data) ==
    IF row >= m.rows \/ column >= m.columns
    THEN Panic(m)
    ELSE LET index == row * m.columns + column
         IN  IF InRange(m, index)
             THEN Ok([m EXCEPT !.data[index + 1] = data])
             ELSE Panic(m)

\* for i in k..data.len() { self.set(row, i, data[i]); }
RECURSIVE set_row_loop(_, _, _, _)
set_row_loop(m, row, data, k) ==
    IF k >= Len(data)
    THEN Ok(m)
    ELSE LET r == set(m, row, k, data[k + 1])
         IN  IF r.ok THEN set_row_loop(r.val, row, data, k + 1) ELSE r

\* set_row without the check of the length of data
set_row_unchecked(m, row, data) ==
    IF row >= m.rows
    THEN Panic(m)
    ELSE set_row_loop(m, row, data, 0)

set_row(m, row, data) ==
    IF row >= m.rows
    THEN Panic(m)
    ELSE IF Len(data) # m.columns
         THEN Panic(m)
         ELSE set_row_loop(m, row, data, 0)

\* for i in k..data.len() { self.set(i, column, data[i]); }
RECURSIVE set_column_loop(_, _, _, _)
set_column_loop(m, column, data, k) ==
    IF k >= Len(data)
    THEN Ok(m)
    ELSE LET r == set(m, k, column, data[k + 1])
         IN  IF r.ok THEN set_column_loop(r.val, column, data, k + 1) ELSE r

set_column(m, column, data) ==
    IF column >= m.columns
    THEN Panic(m)
    ELSE IF Len(data) # m.rows
         THEN Panic(m)
         ELSE set_column_loop(m, column, data, 0)

\* the exchange loop reading row2 back after it was overwritten, not from temp
RECURSIVE exchange_rows_no_temp(_, _, _, _, _)
exchange_rows_no_temp(m, index1, index2, temp, k) ==
    IF k >= m.columns
    THEN m
    ELSE LET m1 == [m EXCEPT !.data[index2 + k + 1] = At(m, index1 + k)]
             m2 == [m1 EXCEPT !.data[index1 + k + 1] = At(m1, index2 + k)]
         IN  exchange_rows_no_temp(m2, index1, index2, temp, k + 1)

\* for i in k..self.columns { data[index2+i] = data[index1+i]; data[index1+i] = temp[i]; }
RECURSIVE exchange_rows_loop(_, _, _, _, _)
exchange_rows_loop(m, index1, index2, temp, k) ==
    IF k >= m.columns
    THEN m
    ELSE LET m1 == [m EXCEPT !.data[index2 + k + 1] = At(m, index1 + k)]
             m2 == [m1 EXCEPT !.data[index1 + k + 1] = temp[k + 1]]
         IN  exchange_rows_loop(m2, index1, index2, temp, k + 1)

exchange_rows(m, row1, row2) ==
    IF row1 >= m.rows \/ row2 >= m.rows
    THEN Panic(m)
    ELSE LET temp == get_row(m, row2)
             index1 == m.columns * row1
             index2 == m.columns * row2
         IN  IF temp.ok
             THEN Ok(exchange_rows_loop(m, index1, index2, temp.val, 0))
             ELSE Panic(m)

\* for i in k..self.rows { data[column2 + i*columns] = data[column1 + i*columns]; ... = temp[i]; }
RECURSIVE exchange_columns_loop(_, _, _, _, _)
exchange_columns_loop(m, column1, column2, temp, k) ==
    IF k >= m.rows
    THEN m
    ELSE LET m1 == [m EXCEPT !.data[column2 + (k * m.columns) + 1] =
                                  At(m, column1 + (k * m.columns))]
             m2 == [m1 EXCEPT !.data[column1 + (k * m.columns) + 1] = temp[k + 1]]
         IN  exchange_columns_loop(m2, column1, column2, temp, k + 1)

exchange_columns(m, column1, column2) ==
    IF column1 >= m.columns \/ column2 >= m.columns
    THEN Panic(m)
    ELSE LET temp == get_column(m, column2)
         IN  IF temp.ok
             THEN Ok(exchange_columns_loop(m, column1, column2, temp.val, 0))
             ELSE Panic(m)

----------------------------------------------------------------------------
(* The operators Add, Sub and Mul.  Both operands are consumed; the result *)
(* is a new Matrix.                                                        *)

add(self, other) ==
    IF Len(self.data) # Len(other.data)
    THEN Panic(<<>>)
    ELSE Ok(Matrix(self.rows, self.columns,
                   [k \in 1..Len(self.data) |-> RAdd(self.data[k], other.data[k])]))

sub(self, other) ==
    IF Len(self.data) # Len(other.data)
    THEN Panic(<<>>)
    ELSE Ok(Matrix(self.rows, self.columns,
                   [k \in 1..Len(self.data) |-> RSub(self.data[k], other.data[k])]))

Min(a, b) == IF a < b THEN a ELSE b

\* for (a, b) in current_row.iter().zip(current_column.iter()) { new_value += *a * *b; }
RECURSIVE zip_sum(_, _, _, _)
zip_sum(current_row, current_column, k, new_value) ==
    IF k > Min(Len(current_row), Len(current_column))
    THEN new_value
    ELSE zip_sum(current_row, current_column, k + 1,
                 RAdd(new_value, RMul(current_row[k], current_column[k])))

\* the inner loop of mul reading row k of other instead of column k
RECURSIVE mul_columns_by_row(_, _, _, _, _)
mul_columns_by_row(self, other, current_row, k, new_data) ==
    IF k >= other.columns
    THEN new_data
    ELSE LET current_column == get_row(other, k).val
             new_value == zip_sum(current_row, current_column, 1, Zero)
         IN  mul_columns_by_row(self, other, current_row, k + 1,
                                Append(new_data, new_value))

\* for k in k..other.columns { ...; new_data.push(new_value); }
RECURSIVE mul_columns(_, _, _, _, _)
mul_columns(self, other, current_row, k, new_data) ==
    IF k >= other.columns
    THEN new_data
    ELSE LET current_column == get_column(other, k).val
             new_value == zip_sum(current_row, current_column, 1, Zero)
         IN  mul_columns(self, other, current_row, k + 1, Append(new_data, new_value))

\* for i in r..self.rows { let current_row = self.get_row(i); ... }
RECURSIVE mul_rows(_, _, _, _)
mul_rows(self, other, r, new_data) ==
    IF r >= self.rows
    THEN new_data
    ELSE mul_rows(self, other, r + 1,
                  mul_columns(self, other, get_row(self, r).val, 0, new_data))

\* mul declaring the result with the shape of self, as add and sub do
mul_shape_of_self(self, other) ==
    IF self.columns # other.rows
    THEN Panic(<<>>)
    ELSE Ok(Matrix(self.rows, self.columns, mul_rows(self, other, 0, <<>>)))

mul(self, other) ==
    IF self.columns # other.rows
    THEN Panic(<<>>)
    ELSE Ok(Matrix(self.rows, other.columns, mul_rows(self, other, 0, <<>>)))

----------------------------------------------------------------------------
(* get_determinant, as the steps of its loop. *)

\* row_search with the sign left as it was when the rows are exchanged
RECURSIVE row_search_keeps_sign(_, _, _, _, _)
row_search_keeps_sign(m, sg, pv, k, x) ==
    IF is_zero(pv) /\ x < m.rows
    THEN IF ~is_zero(get(m, x, k).val)
         THEN LET m1 == exchange_rows(m, x, k).val
              IN  [m |-> m1, sign |-> sg, pivot |-> get(m1, k, k).val]
         ELSE row_search_keeps_sign(m, sg, pv, k, x + 1)
    ELSE [m |-> m, sign |-> sg, pivot |-> pv]

\* while pivot.is_zero() && x < self.rows { ... exchange_rows(x, i) ... }
RECURSIVE row_search(_, _, _, _, _)
row_search(m, sg, pv, k, x) ==
    IF is_zero(pv) /\ x < m.rows
    THEN IF ~is_zero(get(m, x, k).val)
         THEN LET m1 == exchange_rows(m, x, k).val
              IN  [m |-> m1, sign |-> RNeg(sg), pivot |-> get(m1, k, k).val]
         ELSE row_search(m, sg, pv, k, x + 1)
    ELSE [m |-> m, sign |-> sg, pivot |-> pv]

\* while pivot.is_zero() && x < self.columns { ... exchange_columns(i, x) ... }
RECURSIVE column_search(_, _, _, _, _)
column_search(m, sg, pv, k, x) ==
    IF is_zero(pv) /\ x < m.columns
    THEN IF ~is_zero(get(m, k, x).val)
         THEN LET m1 == exchange_columns(m, k, x).val
              IN  [m |-> m1, sign |-> RNeg(sg), pivot |-> get(m1, k, k).val]
         ELSE column_search(m, sg, pv, k, x + 1)
    ELSE [m |-> m, sign |-> sg, pivot |-> pv]

\* the pivot search looking along the row before it looks down the column
pivot_search_columns_first(m, sg, k) ==
    LET s1 == column_search(m, sg, get(m, k, k).val, k, k + 1)
    IN  row_search(s1.m, s1.sign, s1.pivot, k, k + 1)

\* the pivot search of one iteration: rows first, then columns
pivot_search(m, sg, k) ==
    LET s1 == row_search(m, sg, get(m, k, k).val, k, k + 1)
    IN  column_search(s1.m, s1.sign, s1.pivot, k, k + 1)

\* .get_row(x).iter().zip(get_row(i).iter()).map(|(a, b)| *a - m * *b)
new_row(m, x, k, mult) ==
    LET a == get_row(m, x).val
        b == get_row(m, k).val
    IN  [n \in 1..Min(Len(a), Len(b)) |-> RSub(a[n], RMul(mult, b[n]))]

\* the elimination with the multiplier not divided by the pivot
RECURSIVE eliminate_undivided(_, _, _, _)
eliminate_undivided(m, k, pv, x) ==
    IF x < m.rows
    THEN LET mult == get(m, x, k).val
         IN  eliminate_undivided(set_row(m, x, new_row(m, x, k, mult)).val, k, pv, x + 1)
    ELSE m

\* while x < trig_matrix.rows { ...; trig_matrix.set_row(x, new_row); x += 1; }
RECURSIVE eliminate(_, _, _, _)
eliminate(m, k, pv, x) ==
    IF x < m.rows
    THEN LET mult == RDiv(get(m, x, k).val, pv)
         IN  eliminate(set_row(m, x, new_row(m, x, k, mult)).val, k, pv, x + 1)
    ELSE m

\* .iter().copied().product::<T>()
RECURSIVE product(_, _, _)
product(s, k, acc) == IF k > Len(s) THEN acc ELSE product(s, k + 1, RMul(acc, s[k]))

----------------------------------------------------------------------------
(* Inputs. *)

\* element values handed to the constructor, the mutators and the operators
OpVals == {Rat(-1), Rat(2)}

Shapes == {rc \in (0..MaxDim) \X (0..MaxDim) : rc[1] * rc[2] <= MaxCells}

\* every matrix new and set can build within the bounds
OpMatrices ==
    UNION {{Matrix(rc[1], rc[2], d) : d \in [1..(rc[1] * rc[2]) -> OpVals]} : rc \in Shapes}

\* replacement rows and columns: the right length, one less and one more
Replacements(len) ==
    UNION {[1..n -> OpVals] : n \in {k \in {len - 1, len, len + 1} : k >= 0}}

\* an index argument: every valid index and the first invalid one
Indices == 0..MaxDim

\* entries of an n x n input of get_determinant
DetVals(n) ==
    IF n <= 2 THEN {Rat(v) : v \in -2..5}
    ELSE IF n = 3 THEN {Rat(v) : v \in 0..2}
    ELSE {Rat(v) : v \in 0..1}

\* the cell sequences of the inputs of order k: every one up to order 3, and
\* beyond that the sparse ones, where zero pivots and exchanges abound
DetData(k) ==
    IF k <= 3
    THEN [1..(k * k) -> DetVals(k)]
    ELSE {d \in [1..(k * k) -> DetVals(k)] :
             Cardinality({j \in 1..(k * k) : ~is_zero(d[j])}) <= k + 2}

\* the matrices of tests::get_determinant_1 and tests::get_determinant_2
TestMatrices ==
    {Matrix(2, 2, <<Rat(2), Rat(3), Rat(4), Rat(5)>>),
     Matrix(3, 3, <<Rat(3), Rat(2), Rat(1), Rat(4), Rat(5), Rat(6),
                    Rat(7), Rat(8), Rat(9)>>)}

\* the inputs of get_determinant of order at most n, and two that are not square
DetInputs(n) ==
    UNION {{Matrix(k, k, d) : d \in DetData(k)} : k \in 0..n}
    \cup TestMatrices
    \cup {new(1, 2, Rat(1)), new(2, 1, Rat(1))}

NoCall == [op |-> "none", ok |-> TRUE, args |-> <<>>, pre |-> <<>>, out |-> <<>>]

Call(op, ok, args, pre, out) ==
    [op |-> op, ok |-> ok, args |-> args, pre |-> pre, out |-> out]

DetIdle ==
    /\ pc = "idle"
    /\ trig_matrix = <<>>
    /\ sign = One
    /\ i = 0
    /\ pivot = Zero
    /\ determinant = Zero
    /\ hist = <<>>
    /\ sign0 = One

----------------------------------------------------------------------------
(* The operation model: one matrix A under the constructor, the accessors, *)
(* the mutators and the operators.                                         *)

\* no call is pending: the caller holds A and nothing else
Ready == last.op = "none"

Init ==
    /\ \E rc \in Shapes, d \in OpVals : A = new(rc[1], rc[2], d)
    /\ last = NoCall
    /\ DetIdle

New(rows, columns, default) ==
    /\ Ready
    /\ A' = new(rows, columns, default)
    /\ last' = Call("new", TRUE, <<rows, columns, default>>, A, <<>>)
    /\ UNCHANGED detVars

Get(row, column) ==
    LET r == get(A, row, column)
    IN  /\ Ready
        /\ last' = Call("get", r.ok, <<row, column>>, A, r.val)
        /\ UNCHANGED <<A, detVars>>

GetRow(row) ==
    LET r == get_row(A, row)
    IN  /\ Ready
        /\ last' = Call("get_row", r.ok, <<row>>, A, r.val)
        /\ UNCHANGED <<A, detVars>>

GetColumn(column) ==
    LET r == get_column(A, column)
    IN  /\ Ready
        /\ last' = Call("get_column", r.ok, <<column>>, A, r.val)
        /\ UNCHANGED <<A, detVars>>

GetDiagonal ==
    LET r == get_diagonal(A)
    IN  /\ Ready
        /\ last' = Call("get_diagonal", r.ok, <<>>, A, r.val)
        /\ UNCHANGED <<A, detVars>>

Set(row, column, data) ==
    LET r == set(A, row, column, data)
    IN  /\ Ready
        /\ A' = r.val
        /\ last' = Call("set", r.ok, <<row, column, data>>, A, <<>>)
        /\ UNCHANGED detVars

SetRow(row, data) ==
    LET r == set_row(A, row, data)
    IN  /\ Ready
        /\ A' = r.val
        /\ last' = Call("set_row", r.ok, <<row, data>>, A, <<>>)
        /\ UNCHANGED detVars

SetColumn(column, data) ==
    LET r == set_column(A, column, data)
    IN  /\ Ready
        /\ A' = r.val
        /\ last' = Call("set_column", r.ok, <<column, data>>, A, <<>>)
        /\ UNCHANGED detVars

ExchangeRows(row1, row2) ==
    LET r == exchange_rows(A, row1, row2)
    IN  /\ Ready
        /\ A' = r.val
        /\ last' = Call("exchange_rows", r.ok, <<row1, row2>>, A, <<>>)
        /\ UNCHANGED detVars

ExchangeColumns(column1, column2) ==
    LET r == exchange_columns(A, column1, column2)
    IN  /\ Ready
        /\ A' = r.val
        /\ last' = Call("exchange_columns", r.ok, <<column1, column2>>, A, <<>>)
        /\ UNCHANGED detVars

\* A + other; the operands are moved, and A stands for a matrix built again
Add(other) ==
    LET r == add(A, other)
    IN  /\ Ready
        /\ last' = Call("add", r.ok, <<other>>, A, r.val)
        /\ UNCHANGED <<A, detVars>>

Sub(other) ==
    LET r == sub(A, other)
    IN  /\ Ready
        /\ last' = Call("sub", r.ok, <<other>>, A, r.val)
        /\ UNCHANGED <<A, detVars>>

Mul(other) ==
    LET r == mul(A, other)
    IN  /\ Ready
        /\ last' = Call("mul", r.ok, <<other>>, A, r.val)
        /\ UNCHANGED <<A, detVars>>

\* the caller drops the outcome of the last call
Return ==
    /\ ~Ready
    /\ last' = NoCall
    /\ UNCHANGED <<A, detVars>>

Next ==
    \/ \E rc \in Shapes, d \in OpVals : New(rc[1], rc[2], d)
    \/ \E row \in Indices, column \in Indices : Get(row, column)
    \/ \E row \in Indices : GetRow(row)
    \/ \E column \in Indices : GetColumn(column)
    \/ GetDiagonal
    \/ \E row \in Indices, column \in Indices, d \in OpVals : Set(row, column, d)
    \/ \E row \in Indices, d \in Replacements(A.columns) : SetRow(row, d)
    \/ \E column \in Indices, d \in Replacements(A.rows) : SetColumn(column, d)
    \/ \E row1 \in Indices, row2 \in Indices : ExchangeRows(row1, row2)
    \/ \E column1 \in Indices, column2 \in Indices : ExchangeColumns(column1, column2)
    \/ \E other \in OpMatrices : Add(other)
    \/ \E other \in OpMatrices : Sub(other)
    \/ \E other \in OpMatrices : Mul(other)
    \/ Return

Spec == Init /\ [][Next]_vars

----------------------------------------------------------------------------
(* The determinant model: get_determinant on one input, step by step.      *)
(* hist records the working matrix at the start of every pivot iteration.  *)

InitDet ==
    /\ A \in DetInputs(MaxN)
    /\ last = NoCall
    /\ pc = "start"
    /\ trig_matrix = <<>>
    /\ sign = One
    /\ i = 0
    /\ pivot = Zero
    /\ determinant = Zero
    /\ hist = <<>>
    /\ sign0 = One

\* the start of get_determinant with the loop body entered before its range is tested
DetStart_enters_loop ==
    /\ pc = "start"
    /\ IF A.rows # A.columns
       THEN /\ pc' = "panic"
            /\ UNCHANGED <<trig_matrix, sign>>
       ELSE /\ trig_matrix' = Matrix(A.rows, A.columns, A.data)
            /\ sign' = One
            /\ pc' = "pivot"
    /\ i' = 0
    /\ UNCHANGED <<pivot, determinant, hist, sign0, opVars>>

\* the square check, the working copy and sign = T::one()
DetStart ==
    /\ pc = "start"
    /\ IF A.rows # A.columns
       THEN /\ pc' = "panic"
            /\ UNCHANGED <<trig_matrix, sign>>
       ELSE /\ trig_matrix' = Matrix(A.rows, A.columns, A.data)
            /\ sign' = One
            /\ pc' = IF 0 < A.columns THEN "pivot" ELSE "product"
    /\ i' = 0
    /\ UNCHANGED <<pivot, determinant, hist, sign0, opVars>>

\* one iteration's pivot search, and the return of zero when none is found
DetPivot ==
    /\ pc = "pivot"
    /\ LET s == pivot_search(trig_matrix, sign, i)
       IN  /\ trig_matrix' = s.m
           /\ sign' = s.sign
           /\ pivot' = s.pivot
           /\ IF is_zero(s.pivot)
              THEN /\ pc' = "singular"
                   /\ determinant' = Zero
              ELSE /\ pc' = "elim"
                   /\ UNCHANGED determinant
    /\ hist' = Append(hist, trig_matrix)
    /\ sign0' = sign
    /\ UNCHANGED <<i, opVars>>

\* one iteration's elimination of the rows below the pivot
DetEliminate ==
    /\ pc = "elim"
    /\ trig_matrix' = eliminate(trig_matrix, i, pivot, i + 1)
    /\ i' = i + 1
    /\ pc' = IF i + 1 < A.columns THEN "pivot" ELSE "product"
    /\ UNCHANGED <<sign, pivot, determinant, hist, sign0, opVars>>

\* sign * product of the diagonal
DetProduct ==
    /\ pc = "product"
    /\ determinant' = RMul(sign, product(get_diagonal(trig_matrix).val, 1, One))
    /\ pc' = "done"
    /\ UNCHANGED <<trig_matrix, sign, i, pivot, hist, sign0, opVars>>

NextDet ==
    \/ DetStart
    \/ DetPivot
    \/ DetEliminate
    \/ DetProduct

SpecDet == InitDet /\ [][NextDet]_vars

----------------------------------------------------------------------------
(* Reference definitions used by the properties.  They are stated over the *)
(* grid of cells, not through the accessors of the source.                 *)

\* the cell in row r and column c of the row-major grid
Cell(m, r, c) == m.data[r * m.columns + c + 1]

WellFormed(m) == Len(m.data) = m.rows * m.columns

RECURSIVE SumOver(_, _)
SumOver(S, f) ==
    IF S = {} THEN 0
    ELSE LET e == CHOOSE e \in S : TRUE IN f[e] + SumOver(S \ {e}, f)

RECURSIVE ProdTo(_, _)
ProdTo(n, f) == IF n = 0 THEN 1 ELSE f[n - 1] * ProdTo(n - 1, f)

Perms(n) ==
    {p \in [0..(n - 1) -> 0..(n - 1)] : \A a, b \in 0..(n - 1) : p[a] = p[b] => a = b}

Inversions(n, p) == Cardinality({ab \in (0..(n - 1)) \X (0..(n - 1)) :
                                    ab[1] < ab[2] /\ p[ab[1]] > p[ab[2]]})

Sgn(n, p) == IF Inversions(n, p) % 2 = 0 THEN 1 ELSE -1

\* the Leibniz determinant of a square matrix of integers
Leibniz(m) ==
    LET n == m.rows
        term == [p \in Perms(n) |->
                    Sgn(n, p) * ProdTo(n, [r \in 0..(n - 1) |-> Cell(m, r, p[r])[1]])]
    IN  SumOver(Perms(n), term)

Returned == pc \in {"done", "singular"}

----------------------------------------------------------------------------
(* C1: for every square n x n matrix (n >= 1), get_determinant returns the *)
(* Leibniz determinant; a square matrix never makes it panic, a singular   *)
(* one yields zero, and [[2,3],[4,5]] yields -2.                           *)
C1_Determinant ==
    /\ (A.rows = A.columns) => pc # "panic"
    /\ (Returned /\ A.rows >= 1) => determinant = Rat(Leibniz(A))
    /\ (Returned /\ A.rows >= 1 /\ Leibniz(A) = 0) => determinant = Zero
    /\ (Returned /\ A = Matrix(2, 2, <<Rat(2), Rat(3), Rat(4), Rat(5)>>))
          => determinant = Rat(-2)

\* a 3 x 3 input whose first pivot needed a row exchange has returned a nonzero value
C1_Witness ==
    /\ pc = "done"
    /\ A.rows = 3
    /\ is_zero(Cell(A, 0, 0))
    /\ ~is_zero(determinant)

----------------------------------------------------------------------------
(* Properties of the operation model.  last.pre is the receiver before the *)
(* call, last.args its arguments, last.out what it returned.               *)

Mutators == {"set", "set_row", "set_column", "exchange_rows", "exchange_columns"}

Operators == {"add", "sub", "mul"}

ValidCells(m) == (0..(m.rows - 1)) \X (0..(m.columns - 1))

SameShape(m, n) ==
    /\ m.rows = n.rows
    /\ m.columns = n.columns
    /\ Len(m.data) = Len(n.data)

(* C2: in every matrix reached by new, the mutators and the operators,     *)
(* failing calls included, data has rows * columns elements.               *)
C2_DataLength ==
    /\ WellFormed(A)
    /\ (last.op \in Operators /\ last.ok) => WellFormed(last.out)

\* a product of a 2 x 3 and a 3 x 1 matrix has been returned
C2_Witness ==
    /\ last.op = "mul"
    /\ last.ok
    /\ last.pre.rows = 2
    /\ last.pre.columns = 3
    /\ last.args[1].columns = 1

(* C3: add and subtract fail whenever the operands differ in rows or in    *)
(* columns.  Stated for operands that hold at least one cell.              *)
C3_ShapeMismatchRejected ==
    (/\ last.op \in {"add", "sub"}
     /\ Len(last.pre.data) > 0
     /\ (last.pre.rows # last.args[1].rows \/ last.pre.columns # last.args[1].columns))
        => ~last.ok

\* the dot product of row r of a and column c of b, over integer entries
Dot(a, b, r, c) ==
    SumOver(0..(a.columns - 1),
            [j \in 0..(a.columns - 1) |-> Cell(a, r, j)[1] * Cell(b, j, c)[1]])

(* C4: multiply(A, B) fails exactly when A.columns # B.rows; otherwise the *)
(* result is A.rows x B.columns and its cell (i,k) is the sum over j of    *)
(* A[i,j] * B[j,k].                                                        *)
C4_Multiply ==
    last.op = "mul" =>
        LET a == last.pre
            b == last.args[1]
        IN  IF a.columns # b.rows
            THEN ~last.ok /\ last.out = <<>>
            ELSE /\ last.ok
                 /\ last.out.rows = a.rows
                 /\ last.out.columns = b.columns
                 /\ \A rc \in (0..(a.rows - 1)) \X (0..(b.columns - 1)) :
                       get(last.out, rc[1], rc[2]) = Ok(Rat(Dot(a, b, rc[1], rc[2])))

\* a 2 x 3 matrix has been multiplied by a 3 x 2 matrix whose cells are not all equal
C4_Witness ==
    /\ last.op = "mul"
    /\ last.ok
    /\ last.pre.rows = 2
    /\ last.pre.columns = 3
    /\ last.args[1].columns = 2
    /\ \E k \in 1..6 : last.args[1].data[k] # last.args[1].data[1]
    /\ \E k \in 1..6 : last.pre.data[k] # last.pre.data[1]

\* whether the arguments of a mutator call violate its precondition
BadCall ==
    LET m == last.pre
        a == last.args
    IN  CASE last.op = "set" -> a[1] >= m.rows \/ a[2] >= m.columns
          [] last.op = "set_row" -> a[1] >= m.rows \/ Len(a[2]) # m.columns
          [] last.op = "set_column" -> a[1] >= m.columns \/ Len(a[2]) # m.rows
          [] last.op = "exchange_rows" -> a[1] >= m.rows \/ a[2] >= m.rows
          [] last.op = "exchange_columns" -> a[1] >= m.columns \/ a[2] >= m.columns
          [] OTHER -> FALSE

(* C5: a mutator whose precondition fails (an index out of range, or a row *)
(* or column of the wrong length) fails and leaves rows, columns and every *)
(* cell as they were.                                                      *)
C5_FailedMutatorNoChange ==
    (last.op \in Mutators /\ BadCall) => (~last.ok /\ A = last.pre)

\* set_row was called on a valid row with one value too many
C5_Witness ==
    /\ last.op = "set_row"
    /\ last.args[1] < last.pre.rows
    /\ Len(last.args[2]) = last.pre.columns + 1
    /\ last.pre.columns >= 2
    /\ \E k \in 1..last.pre.columns :
          last.args[2][k] # Cell(last.pre, last.args[1], k - 1)

(* C6: after set(r,c,v) with valid (r,c), get(r,c) returns v, every other  *)
(* cell holds what it held, and rows and columns are unchanged.            *)
C6_SetGet ==
    (last.op = "set" /\ ~BadCall) =>
        /\ last.ok
        /\ get(A, last.args[1], last.args[2]) = Ok(last.args[3])
        /\ SameShape(A, last.pre)
        /\ \A rc \in ValidCells(A) :
              rc # <<last.args[1], last.args[2]>> =>
                  Cell(A, rc[1], rc[2]) = Cell(last.pre, rc[1], rc[2])

\* a cell of the second row of a 3 x 2 matrix has been given a new value
C6_Witness ==
    /\ last.op = "set"
    /\ last.ok
    /\ last.pre.rows = 3
    /\ last.pre.columns = 2
    /\ last.args[1] = 1
    /\ A # last.pre

(* C7: for every valid (r,c), get_row(r) has length columns and its c-th   *)
(* element is get(r,c); get_column(c) has length rows and its r-th element *)
(* is get(r,c); and get reads the linear index r * columns + c.            *)
C7_RowColumnGet ==
    /\ (last.op = "get_row" /\ last.args[1] < A.rows) =>
          /\ last.ok
          /\ Len(last.out) = A.columns
          /\ \A c \in 0..(A.columns - 1) :
                /\ Ok(last.out[c + 1]) = get(A, last.args[1], c)
                /\ last.out[c + 1] = A.data[last.args[1] * A.columns + c + 1]
    /\ (last.op = "get_column" /\ last.args[1] < A.columns) =>
          /\ last.ok
          /\ Len(last.out) = A.rows
          /\ \A r \in 0..(A.rows - 1) :
                /\ Ok(last.out[r + 1]) = get(A, r, last.args[1])
                /\ last.out[r + 1] = A.data[r * A.columns + last.args[1] + 1]
    /\ (last.op = "get" /\ last.args[1] < A.rows /\ last.args[2] < A.columns) =>
          /\ last.ok
          /\ last.out = A.data[last.args[1] * A.columns + last.args[2] + 1]

\* a column of a 3 x 2 matrix whose cells are not all equal has been read
C7_Witness ==
    /\ last.op = "get_column"
    /\ last.ok
    /\ A.rows = 3
    /\ A.columns = 2
    /\ \E k \in 1..3 : last.out[k] # last.out[1]

\* m with rows a and b exchanged, cell by cell
RowsSwapped(m, old, a, b) ==
    /\ SameShape(m, old)
    /\ \A rc \in ValidCells(old) :
          Cell(m, rc[1], rc[2]) =
              Cell(old, IF rc[1] = a THEN b ELSE IF rc[1] = b THEN a ELSE rc[1], rc[2])

\* m with columns a and b exchanged, cell by cell
ColumnsSwapped(m, old, a, b) ==
    /\ SameShape(m, old)
    /\ \A rc \in ValidCells(old) :
          Cell(m, rc[1], rc[2]) =
              Cell(old, rc[1], IF rc[2] = a THEN b ELSE IF rc[2] = b THEN a ELSE rc[2])

(* C8: for valid a and b (a = b included), exchange_rows(a,b) makes row a  *)
(* the old row b and row b the old row a and leaves the other rows alone;  *)
(* exchange_columns does the same for columns; the same exchange applied   *)
(* again restores the matrix.                                              *)
C8_Exchange ==
    /\ (last.op = "exchange_rows" /\ ~BadCall) =>
          /\ last.ok
          /\ RowsSwapped(A, last.pre, last.args[1], last.args[2])
          /\ exchange_rows(A, last.args[1], last.args[2]) = Ok(last.pre)
    /\ (last.op = "exchange_columns" /\ ~BadCall) =>
          /\ last.ok
          /\ ColumnsSwapped(A, last.pre, last.args[1], last.args[2])
          /\ exchange_columns(A, last.args[1], last.args[2]) = Ok(last.pre)

\* two different rows of a 3 x 2 matrix have been exchanged
C8_Witness ==
    /\ last.op = "exchange_rows"
    /\ last.ok
    /\ last.pre.rows = 3
    /\ last.pre.columns = 2
    /\ last.args[1] # last.args[2]
    /\ A # last.pre

----------------------------------------------------------------------------
(* Properties of the pivot search and of the elimination.                  *)

\* the working matrix at the start of the latest pivot iteration
Before == hist[Len(hist)]

\* rows below k with a nonzero entry in column k
RowCandidates(m, k) == {x \in (k + 1)..(m.rows - 1) : ~is_zero(Cell(m, x, k))}

\* columns right of k with a nonzero entry in row k
ColumnCandidates(m, k) == {x \in (k + 1)..(m.columns - 1) : ~is_zero(Cell(m, k, x))}

Lowest(S) == CHOOSE x \in S : \A y \in S : x <= y

\* whether the iteration for index k that starts from m exchanges anything
Exchanges(m, k) ==
    /\ is_zero(Cell(m, k, k))
    /\ (RowCandidates(m, k) # {} \/ ColumnCandidates(m, k) # {})

\* the number of iterations so far that exchanged rows or columns
NumExchanges == Cardinality({k \in 1..Len(hist) : Exchanges(hist[k], k - 1)})

(* C9: at pivot index i, a nonzero working[i][i] means no exchange; a zero *)
(* one exchanges row i with the lowest row x > i whose entry in column i   *)
(* is nonzero; only without such a row is column i exchanged with the      *)
(* lowest column x > i whose entry in row i is nonzero; there is at most   *)
(* one exchange per index, sign is negated once per exchange, and sign is  *)
(* (-1) to the number of exchanges.                                        *)
C9_PivotSearch ==
    /\ (pc \in {"elim", "singular"}) =>
          IF ~is_zero(Cell(Before, i, i))
          THEN trig_matrix = Before /\ sign = sign0 /\ pc = "elim"
          ELSE IF RowCandidates(Before, i) # {}
          THEN /\ RowsSwapped(trig_matrix, Before, i, Lowest(RowCandidates(Before, i)))
               /\ sign = RNeg(sign0)
               /\ pc = "elim"
          ELSE IF ColumnCandidates(Before, i) # {}
          THEN /\ ColumnsSwapped(trig_matrix, Before, i,
                                 Lowest(ColumnCandidates(Before, i)))
               /\ sign = RNeg(sign0)
               /\ pc = "elim"
          ELSE trig_matrix = Before /\ sign = sign0 /\ pc = "singular"
    /\ (pc = "elim") => (pivot = Cell(trig_matrix, i, i) /\ ~is_zero(pivot))
    /\ (pc \in {"pivot", "elim", "singular", "product", "done"}) =>
          sign = (IF NumExchanges % 2 = 0 THEN One ELSE RNeg(One))

\* the second pivot of a 3 x 3 input took a column exchange after the first took a row exchange
C9_Witness ==
    /\ pc = "elim"
    /\ A.rows = 3
    /\ i = 1
    /\ Exchanges(hist[1], 0)
    /\ is_zero(Cell(Before, 1, 1))
    /\ RowCandidates(Before, 1) = {}
    /\ ColumnCandidates(Before, 1) # {}
    /\ sign = One

RECURSIVE DiagonalProduct(_, _)
DiagonalProduct(m, k) ==
    IF k = 0 THEN One ELSE RMul(DiagonalProduct(m, k - 1), Cell(m, k - 1, k - 1))

\* every entry below the diagonal in the columns left of column k is zero
ZeroBelowDiagonal(m, k) ==
    \A c \in 0..(k - 1) : \A r \in (c + 1)..(m.rows - 1) : is_zero(Cell(m, r, c))

(* C10: once pivot index i is processed every entry (r,c) with c <= i and  *)
(* r > c of the working matrix is zero and stays zero through the later    *)
(* exchanges and eliminations; when the loop finishes all pivots the       *)
(* working matrix is upper-triangular and the value returned is sign times *)
(* the product of its diagonal.                                            *)
C10_Triangular ==
    /\ (pc \in {"pivot", "elim", "singular", "product", "done"}) =>
          ZeroBelowDiagonal(trig_matrix, i)
    /\ (pc \in {"product", "done"}) =>
          (i = A.rows /\ ZeroBelowDiagonal(trig_matrix, A.rows))
    /\ (pc = "done") =>
          determinant = RMul(sign, DiagonalProduct(trig_matrix, A.rows))

\* a 3 x 3 input with nonzero entries below its diagonal was reduced through a fraction
C10_Witness ==
    /\ pc = "done"
    /\ A.rows = 3
    /\ ~is_zero(Cell(A, 1, 0))
    /\ ~is_zero(Cell(A, 2, 0))
    /\ ~is_zero(Cell(A, 2, 1))
    /\ \E k \in 1..9 : trig_matrix.data[k][2] > 1
    /\ ~is_zero(determinant)

----------------------------------------------------------------------------
(* C11: a matrix without rows and columns is accepted: new(0, 0, d) gives  *)
(* a matrix with empty data, and get_determinant on it takes no pivot step *)
(* and returns the multiplicative identity, neither panicking nor          *)
(* returning zero.                                                         *)
C11_EmptyDeterminant ==
    (A.rows = 0 /\ A.columns = 0) =>
        /\ \A d \in DetVals(0) : new(0, 0, d) = A
        /\ Len(A.data) = 0
        /\ pc \in {"start", "product", "done"}
        /\ hist = <<>>
        /\ (pc = "done") => (determinant = One /\ ~is_zero(determinant))

\* get_determinant has returned on the matrix new(0, 0, d)
C11_Witness ==
    /\ pc = "done"
    /\ A = new(0, 0, Zero)
    /\ trig_matrix = A

====
